---- MODULE Spec2Model ----
(***************************************************************************)
(* A model of nmeagpx.py: the NMEA-to-GPX tracker (NMEATracker.reader),    *)
(* its cluster buffer (Stack) and BoundingBox.                             *)
(*                                                                         *)
(* Units.  Python floats and datetimes are modelled by integers:           *)
(*   lat, lon    1e-7 degree (one unit is about 1.11 cm on the ground);    *)
(*               the fixes of the model lie within a few metres of         *)
(*               0N 0E, where the cos(lat) factor of planar() is 1         *)
(*   alt         0.1 m                                                     *)
(*   HDOP        0.01                                                      *)
(*   time        seconds since midnight (datetime.time)                   *)
(*   date        day number (datetime.date), NoDay for None                *)
(*   dat         seconds, date * 86400 + time (datetime.combine)           *)
(***************************************************************************)
EXTENDS Integers, Sequences, FiniteSets, TLC

\* ------------------------------------------------------------ constants

JIGGLE == 68
\* 3.4/5 m, in centimetres

STACK_MINUTES == 90

MAXSTACK == 200

MIDNIGHT == 0

NEAR_DAYLENGTH == 23 * 3600

ONE_MINUTE == 60

EIGHT_MINUTES == 8 * 60

DAY == 24 * 3600
\* timedelta(days=1), in seconds

DEG == 10 ^ 7
\* coordinate units in one degree

CM_PER_100_UNITS == 111
\* planar(): 1e-7 degree of arc on the WGS84 sphere is 1.11 cm

NoDay == 0
\* self._thisday = None

NoDat == -1
\* Stack._first = None

\* --------------------------------------------------------------- bounds

MaxLen == 4
\* sentences read from one stream

MaxOps == 5
\* calls made on a Stack, or on a BoundingBox, taken by itself

MaxFileLen == 3
\* sentences in one file of several

MaxSize == 2
\* the greatest max_size of a Stack taken by itself

MaxSentences == 9
\* sentences the logger receives

MaxAttempts == 26
\* calls of sock.connect in one run of the logger

\* --------------------------------------------------------------- inputs

Times == {86398, 5, 12, 35}
\* 23:59:58, 00:00:05, 00:00:12, 00:00:35

Lats == {34, 94, 4}
\* three points on one meridian (longitude 10 units): 34 and 94 are 67 cm
\* apart, 4 and 94 are 1 m apart

GGA(t, la, q, h, a) ==
    [msgID |-> "GGA", time |-> t, lat |-> la, lon |-> 10,
     alt |-> a, HDOP |-> h, quality |-> q]

RMC(t, d) == [msgID |-> "RMC", time |-> t, date |-> d]

\* Position sentences: every time and latitude with one set of the other
\* fields; at 00:00:12, latitude 34 two more: another fix quality, and
\* another HDOP and altitude; and one at 00:06:40.
Fixes ==
    {GGA(t, la, 1, 77, 157) : t \in Times, la \in Lats}
        \cup {GGA(12, 34, 2, 77, 157), GGA(12, 34, 1, 94, 165),
              GGA(400, 34, 1, 77, 157)}

Blank == -(10 ^ 9)
\* the "" the parser gives for an empty field, in a coordinate

\* A position sentence with empty latitude and longitude fields, at 00:00:12.
BlankFixes == {[GGA(12, Blank, 1, 77, 157) EXCEPT !.lon = Blank]}

Positions == Fixes \cup BlankFixes

\* Date-bearing sentences: 23:59:50 on day 1, 00:00:01 on day 2.
DateSentences == {RMC(86390, 1), RMC(1, 2)}

\* ---------------------------------------------------------------- state

VARIABLES
    pc,                \* "reading": in the for loop; "done": reader returned;
                       \* "TypeError", "IndexError": left by that exception;
                       \* "stack", "box": a Stack, a BoundingBox under calls
    thisday,           \* NMEATracker._thisday
    gpsstack,          \* NMEATracker._gpsstack, a Stack
    prev_time,         \* reader: prev_time
    first_GGA,         \* reader: first_GGA
                       \* (reader's timestamp_updated is only printed)
    bb,                \* reader: bb, the whole-file BoundingBox
    i, n, tp,          \* reader: counters
    trkfile,           \* the track points written by write_gpx_trkpnt
    msg_stash,         \* module global msg_stash
    GAPS,              \* module global GAPS
    stack_max,         \* module global stack_max
    limit,             \* the number of sentences in the stream (of calls)
    ret,               \* the last call on the Stack under calls and its value
    files,             \* history: for each file main() is done with, the
                       \* sentences read from it and the points written
    stream,            \* history: the sentences read so far (the points
                       \* passed to the BoundingBox under calls)
    accepted,          \* history: the items offered to the stack
    flushed,           \* history: the items of each flushed cluster
    poor_data,         \* nmealogger parsestream: poor_data, a Bad_stash
    data_stack,        \* nmealogger module global data_stack
    pre_date_stack,    \* nmealogger parsestream: pre_date_stack
    lastday,           \* nmealogger parsestream: lastday
    msgcount,          \* nmealogger module global msgcount
    af,                \* the archive file open in readstream: the raw
                       \* sentences written to it
    tries,             \* nmealogger __main__: tries
    total_tries,       \* nmealogger __main__: total_tries
    wait,              \* nmealogger __main__: index in WAITS_LIST of wait
    first_time,        \* nmealogger __main__: first_time
    connect_failure,   \* the connect_failure.txt flag file exists
    restarts,          \* history: the archive files opened before this one
    puts,              \* history: the puts on the Bad_stash under calls
                       \* since it was made or flushed
    attempts,          \* history: the calls of sock.connect
    pings              \* history: the answers of it_is_alive()

vars == <<pc, thisday, gpsstack, prev_time, first_GGA,
          bb, i, n, tp, trkfile, msg_stash, GAPS, stack_max, limit, ret,
          files, stream, accepted, flushed,
          poor_data, data_stack, pre_date_stack, lastday, msgcount, af,
          tries, total_tries, wait, first_time, connect_failure,
          restarts, puts, attempts, pings>>

\* the state of nmealogger.py
loggervars == <<poor_data, data_stack, pre_date_stack, lastday, msgcount, af,
                tries, total_tries, wait, first_time, connect_failure,
                restarts, puts, attempts, pings>>

\* the state of nmeagpx.py
trackervars == <<thisday, gpsstack, prev_time, first_GGA, bb, i, tp, trkfile,
                 msg_stash, GAPS, stack_max, accepted, flushed>>

\* ---------------------------------------------------------- BoundingBox

BoundingBox ==
    [minlat |-> 90 * DEG, maxlat |-> -90 * DEG, minlon |-> 180 * DEG, maxlon |-> 0]

\* mutant: update() takes the point for the whole box
update_to_point(box, lat, lon) ==
    [minlat |-> lat, maxlat |-> lat, minlon |-> lon, maxlon |-> lon]

update(box, lat, lon) ==
    [minlat |-> IF lat < box.minlat THEN lat ELSE box.minlat,
     maxlat |-> IF lat > box.maxlat THEN lat ELSE box.maxlat,
     minlon |-> IF lon < box.minlon THEN lon ELSE box.minlon,
     maxlon |-> IF lon > box.maxlon THEN lon ELSE box.maxlon]

\* centroid() times two: <<maxlat + minlat, maxlon + minlon>>, so that the
\* halves of the Python division stay integers.
\* update(lat, lon) with "" for a coordinate: "lat > self._maxlat" compares a
\* str with a number and raises TypeError
update_raises(lat, lon) == lat = Blank \/ lon = Blank

centroid2(box) == <<box.maxlat + box.minlat, box.maxlon + box.minlon>>

\* ---------------------------------------------------------------- Stack

Stack(max_size) ==
    [max_size |-> max_size, items |-> <<>>, box |-> BoundingBox,
     first |-> NoDat, full_count |-> 0]

is_empty(S) == Len(S.items) = 0

\* mutant: the stack is never taken for full
is_full_never(S) == FALSE

\* is_full() returns len(_items) == max_size and, when full, counts the call.
is_full(S) == Len(S.items) = S.max_size

\* mutant: is_full() counts every call
after_is_full_any(S) == [S EXCEPT !.full_count = @ + 1]

after_is_full(S) == IF is_full(S) THEN [S EXCEPT !.full_count = @ + 1] ELSE S

\* mutant: the item goes in front of the members
push_front(S, item) ==
    IF is_full(S)
    THEN after_is_full(S)
    ELSE [S EXCEPT !.first = IF @ = NoDat THEN item.dat ELSE @,
                   !.box = update(@, item.msg.lat, item.msg.lon),
                   !.items = <<item>> \o @]

push(S, item) ==
    IF is_full(S)
    THEN after_is_full(S)
    ELSE [S EXCEPT !.first = IF @ = NoDat THEN item.dat ELSE @,
                   !.box = update(@, item.msg.lat, item.msg.lon),
                   !.items = Append(@, item)]

\* mutant: the 50 m of the haversine test taken for the threshold
too_far_50(c2, lat, lon) ==
    LET dy == ((2 * lat - c2[1]) * CM_PER_100_UNITS) \div 100
        dx == ((2 * lon - c2[2]) * CM_PER_100_UNITS) \div 100
    IN  dx * dx + dy * dy > (2 * 5000) * (2 * 5000)

\* distance > JIGGLE, for distance = planar(centroid, msg) in metres: both
\* sides are doubled (the centroid is kept doubled), brought to 1e-4 m and
\* squared. A planar distance over 50 m is replaced by the haversine one,
\* which is over JIGGLE as well.
too_far(c2, lat, lon) ==
    LET dy == (2 * lat - c2[1]) * CM_PER_100_UNITS
        dx == (2 * lon - c2[2]) * CM_PER_100_UNITS
    IN  dx * dx + dy * dy > (2 * JIGGLE * 100) * (2 * JIGGLE * 100)

\* mutant: the quality of the first item is not looked at
quality_change_never(S, item) == FALSE

quality_change(S, item) == item.msg.quality # S.items[1].msg.quality

\* mutant: the time since the first item is not looked at
time_gap_never(S, item) == FALSE

time_gap(S, item) == item.dat - S.first > STACK_MINUTES * 60

\* it_fits(msg_item): [fits, stack, gaps], the value returned, the stack and
\* the entries appended to GAPS.
it_fits(S, item) ==
    LET last_dat == S.items[Len(S.items)].dat IN
    IF is_full(S)
    THEN [fits |-> FALSE, stack |-> after_is_full(S), gaps |-> <<>>]
    ELSE IF is_empty(S)
    THEN [fits |-> TRUE, stack |-> push(S, item), gaps |-> <<>>]
    ELSE IF quality_change(S, item)
    THEN [fits |-> FALSE, stack |-> S, gaps |-> <<>>]
    ELSE IF time_gap(S, item)
    THEN [fits |-> FALSE, stack |-> S,
          gaps |-> <<[from |-> last_dat, to |-> item.dat, len |-> Len(S.items)]>>]
    ELSE IF too_far(centroid2(S.box), item.msg.lat, item.msg.lon)
    THEN [fits |-> FALSE, stack |-> S, gaps |-> <<>>]
    ELSE [fits |-> TRUE, stack |-> push(S, item), gaps |-> <<>>]

\* mutant: flush() forgets self._box = BoundingBox()
flush_keeps_box(S) == [S EXCEPT !.items = <<>>, !.first = NoDat]

\* mutant: flush() forgets self._items = []
flush_keeps_items(S) == [S EXCEPT !.first = NoDat, !.box = BoundingBox]

\* flush(): the stack emptied (stack_max is set by the caller's action, see
\* new_stack_max).
flush(S) == [S EXCEPT !.items = <<>>, !.first = NoDat, !.box = BoundingBox]

new_stack_max(S, smax) == IF Len(S.items) > smax THEN Len(S.items) ELSE smax

RECURSIVE SumOver(_, _, _)
\* f[lo] + ... + f[hi], by halves (a stack of MAXSTACK items is summed in a
\* recursion 8 deep)
SumOver(f, lo, hi) ==
    IF lo > hi THEN 0
    ELSE IF lo = hi THEN f[lo]
    ELSE LET mid == (lo + hi) \div 2
         IN  SumOver(f, lo, mid) + SumOver(f, mid + 1, hi)

\* the loop "lat += i.lat" and its like, over the k items
Sum(f, k) == SumOver(f, 1, k)

RECURSIVE MaxOver(_, _, _)
\* the greatest of 0 and f[lo], ..., f[hi], by halves
MaxOver(f, lo, hi) ==
    IF lo > hi THEN 0
    ELSE IF lo = hi THEN (IF f[lo] > 0 THEN f[lo] ELSE 0)
    ELSE LET mid == (lo + hi) \div 2
             a == MaxOver(f, lo, mid)
             b == MaxOver(f, mid + 1, hi)
         IN  IF b > a THEN b ELSE a

\* mutant: the HDOP of the last item is returned
hdop_of_last(f, k) == f[k]

\* the loop "if i.HDOP > hdop: hdop = i.HDOP", from hdop = 0
Max0(f, k) == MaxOver(f, 1, k)

\* float(f"{total/num:.Nf}") in units of step: the multiple of step nearest
\* to total/num, a tie going to the even multiple.
round_to(total, num, step) ==
    LET den == num * step
        q == total \div den
        r == total - q * den
    IN  IF 2 * r < den THEN q * step
        ELSE IF 2 * r > den THEN (q + 1) * step
        ELSE IF q % 2 = 0 THEN q * step ELSE (q + 1) * step

\* median() of a non-empty stack: dat is the loop variable after the loop,
\* the last item's. (On an empty stack self._items[0] raises IndexError.)
median(S) ==
    LET num == Len(S.items)
        lats == [k \in 1..num |-> S.items[k].msg.lat]
        lons == [k \in 1..num |-> S.items[k].msg.lon]
        alts == [k \in 1..num |-> S.items[k].msg.alt]
        hdops == [k \in 1..num |-> S.items[k].msg.HDOP]
    IN  [lat |-> round_to(Sum(lats, num), num, 10),
         lon |-> round_to(Sum(lons, num), num, 10),
         alt |-> round_to(Sum(alts, num), num, 1),
         dat |-> S.items[num].dat,
         quality |-> S.items[1].msg.quality,
         hdop |-> Max0(hdops, num)]

\* mutant: median() of an empty stack returns a point at the origin
median_call_origin(S) ==
    IF is_empty(S)
    THEN [op |-> "median", raised |-> FALSE,
          val |-> [lat |-> 0, lon |-> 0, alt |-> 0, dat |-> NoDat,
                   quality |-> 0, hdop |-> 0]]
    ELSE [op |-> "median", raised |-> FALSE, val |-> median(S)]

\* a call of median(): on an empty stack the loop is passed over and
\* "first, _ = self._items[0]" raises IndexError; else val is returned
median_call(S) ==
    IF is_empty(S)
    THEN [op |-> "median", raised |-> TRUE]
    ELSE [op |-> "median", raised |-> FALSE, val |-> median(S)]

\* ---------------------------------------------------------- NMEATracker

\* time_diff(t1, t2), a timedelta, in seconds
time_diff(t1, t2) == t1 - t2

\* strim(): a coordinate whose str() has fewer than 13 characters is
\* returned as it is; the coordinates of the model all are.
strim(x) == x

\* mutant: a date-bearing sentence always sets the held date
new_thisday_reported(day, date) == date

\* 'date' in d and d['date'] != "": the held date after a date-bearing
\* sentence. A different date than the held one is printed, not stored.
new_thisday(day, date) == IF day = NoDay THEN date ELSE day

\* mutant: the test for a missing date is lost
no_date_never(day) == FALSE

\* not self._thisday
no_date(day) == day = NoDay

\* mutant: a time of day before prev_time goes unnoticed
backward_never(t, prev) == FALSE

backward(t, prev) == t < prev

\* the first GGA after a date-bearing sentence is skipped when it is
\* backwards of prev_time, or forward of it by more than NEAR_DAYLENGTH
skip_first(first, t, prev) ==
    first /\ (backward(t, prev) \/ time_diff(t, prev) > NEAR_DAYLENGTH)

\* mutant: the day is left as it is
rollover_none(day) == day

\* mutant: jitter is a step back of less than a minute
in_grace_minute(prev, t) == t - prev > -ONE_MINUTE

\* mutant: no backward step is taken for jitter
in_grace_never(prev, t) == FALSE

in_grace(prev, t) ==
    time_diff(prev, t) < ONE_MINUTE \/ time_diff(prev, t) < EIGHT_MINUTES

\* self._thisday += timedelta(days=1)
rollover(day) == day + 1

\* mutant: the time of day alone, the day dropped
combine_time_only(day, t) == t

\* datetime.combine(self._thisday, msg.time, timezone.utc)
combine(day, t) == day * DAY + t

\* fix, as the reader sets it from median()'s quality and the quality of the
\* message in hand
fix_of(quality, msg_quality) ==
    IF quality = 1 THEN "3d" ELSE IF msg_quality = 2 THEN "2d" ELSE "none"

\* the <trkpt> write_gpx_trkpnt() writes; time is dat to the second
trkpt(med, fix) ==
    [lat |-> med.lat, lon |-> med.lon, ele |-> med.alt, time |-> med.dat,
     fix |-> fix, hdop |-> med.hdop]

\* ------------------------------------------- nmealogger.py: its objects

\* HDOP is in hundredths, as for the tracker
HDOP_LIMIT == 300

LONG_ENOUGH == 300000

RUNNING_STACK == 6

PREDATE_STACK == 20

WORST_HDOP == 9900
\* the 99 that Bad_stash starts from and that Stack.best() starts from

NoHdop == -1
\* 'HDOP' not in d

None == [msgID |-> "None"]
\* Bad_stash.raw = None, Bad_stash.parsed = None

NoneNum == -(10 ^ 9) - 1
\* Bad_stash.lat, lon, t = None

\* Bad_stash()
Bad_stash ==
    [hdop |-> WORST_HDOP, raw |-> None, parsed |-> None,
     lat |-> NoneNum, lon |-> NoneNum, t |-> NoneNum]

\* Bad_stash.put(): overwrites when hdop <= self.hdop
Bad_stash_put(S, raw, parsed, hdop, lat, lon, t) ==
    IF hdop <= S.hdop
    THEN [hdop |-> hdop, raw |-> raw, parsed |-> parsed,
          lat |-> lat, lon |-> lon, t |-> t]
    ELSE S

\* Bad_stash.is_available(): self.raw is there (no raw sentence is empty)
Bad_stash_is_available(S) == S.raw # None

\* Bad_stash.get(): None when self.raw is not there, else the tuple held;
\* self is left as it is
Bad_stash_get(S) ==
    [op |-> "get", none |-> S.raw = None,
     val |-> <<S.raw, S.parsed, S.hdop, S.lat, S.lon, S.t>>]

\* Bad_stash.flush(): self.__init__()
Bad_stash_flush(S) == Bad_stash

\* nmealogger's Stack(max_size), of (raw, hdop) tuples
LoggerStack(max_size) == [max_size |-> max_size, items |-> <<>>]

logger_is_empty(S) == Len(S.items) = 0

logger_is_full(S) == Len(S.items) = S.max_size

\* Stack.push(): "Stack Overflow!" is printed when full
logger_push(S, item) ==
    IF logger_is_full(S) THEN S ELSE [S EXCEPT !.items = Append(@, item)]

\* Stack.flush()
logger_flush(S) == [S EXCEPT !.items = <<>>]

\* Stack.best(): the raw of the first item of the lowest HDOP under 99
\* (with no item under 99 bestnmea is unbound: never so for the items the
\* logger pushes, all under HDOP_LIMIT)
logger_best(S) ==
    LET k == CHOOSE k \in 1..Len(S.items) :
                 /\ S.items[k][2] < WORST_HDOP
                 /\ \A j \in 1..Len(S.items) :
                        \/ S.items[j][2] > S.items[k][2]
                        \/ (S.items[j][2] = S.items[k][2] /\ j >= k)
    IN  S.items[k][1]

\* __main__: the waits between attempts of one cycle
WAITS_LIST == <<4, 8, 16, 32, 64>>

max_tries == Len(WAITS_LIST)

max_total_tries == 1 + max_tries * 4

\* no call made yet
NoCall == [op |-> "none"]

\* NMEATracker(): the tracker's fields, reader's locals before its loop and
\* the module globals, all but the stack
FreshButFlag ==
    /\ thisday = NoDay
    /\ prev_time = MIDNIGHT
    /\ first_GGA = TRUE
    /\ bb = BoundingBox
    /\ i = 0
    /\ n = 0
    /\ tp = 0
    /\ trkfile = <<>>
    /\ msg_stash = <<>>
    /\ GAPS = <<>>
    /\ stack_max = 0
    /\ ret = NoCall
    /\ files = <<>>
    /\ stream = <<>>
    /\ accepted = <<>>
    /\ flushed = <<>>
    /\ poor_data = Bad_stash
    /\ data_stack = LoggerStack(RUNNING_STACK)
    /\ pre_date_stack = LoggerStack(PREDATE_STACK)
    /\ lastday = NoDay
    /\ msgcount = 0
    /\ af = <<>>
    /\ tries = 1
    /\ total_tries = 1
    /\ wait = 1
    /\ restarts = 0
    /\ puts = <<>>
    /\ attempts = [all |-> 0, failed |-> 0]
    /\ pings = <<>>

\* the same, and no connect_failure.txt left by an earlier run
Fresh ==
    /\ FreshButFlag
    /\ first_time = TRUE
    /\ connect_failure = FALSE

Init ==
    /\ pc = "reading"
    /\ gpsstack = Stack(MAXSTACK)
    /\ limit = MaxLen
    /\ Fresh

\* the for loop yields one more sentence
Reads(msg) ==
    /\ pc = "reading"
    /\ n < limit
    /\ n' = n + 1
    /\ stream' = Append(stream, msg)
    /\ pc' = pc
    /\ UNCHANGED <<limit, ret, files>>
    /\ UNCHANGED loggervars

\* mutant: the discarded fix's time of day is taken as prev_time
Discard_sets_prev_time(msg) ==
    /\ msg_stash' = Append(msg_stash, <<n + 1, msg>>)
    /\ prev_time' = msg.time
    /\ UNCHANGED <<thisday, gpsstack, bb, i, tp, trkfile, GAPS,
                   stack_max, accepted, flushed>>

\* stash_msg(n, msg); continue
Discard(msg) ==
    /\ msg_stash' = Append(msg_stash, <<n + 1, msg>>)
    /\ UNCHANGED <<thisday, gpsstack, prev_time, bb, i, tp, trkfile, GAPS,
                   stack_max, accepted, flushed>>

\* a sentence with a date (RMC): it is not a GGA, the rest of the body is
\* passed over
DateSentence(msg) ==
    /\ Reads(msg)
    /\ first_GGA' = TRUE
    /\ thisday' = new_thisday(thisday, msg.date)
    /\ UNCHANGED <<gpsstack, prev_time, bb, i, tp, trkfile, msg_stash, GAPS,
                   stack_max, accepted, flushed>>

\* a GGA before any date
SkipNoDate(msg) ==
    /\ Reads(msg)
    /\ no_date(thisday)
    /\ Discard(msg)
    /\ UNCHANGED first_GGA

\* the first GGA after a date-bearing sentence, out of step with prev_time
SkipFirstGGA(msg) ==
    /\ Reads(msg)
    /\ ~no_date(thisday)
    /\ skip_first(first_GGA, msg.time, prev_time)
    /\ first_GGA' = FALSE
    /\ Discard(msg)

\* a GGA backwards of prev_time by less than a minute, or than 8 minutes
SkipBackward(msg) ==
    /\ Reads(msg)
    /\ ~no_date(thisday)
    /\ ~skip_first(first_GGA, msg.time, prev_time)
    /\ backward(msg.time, prev_time)
    /\ in_grace(prev_time, msg.time)
    /\ first_GGA' = FALSE
    /\ Discard(msg)

\* a GGA that is kept: the day rolls over when it is backwards of prev_time,
\* then it goes to the stack, and when it does not fit the stack's median
\* is written and the stack restarted with it
AcceptFix(msg) ==
    /\ Reads(msg)
    /\ ~no_date(thisday)
    /\ ~skip_first(first_GGA, msg.time, prev_time)
    /\ ~(backward(msg.time, prev_time) /\ in_grace(prev_time, msg.time))
    /\ ~update_raises(strim(msg.lat), strim(msg.lon))
    /\ LET day == IF backward(msg.time, prev_time) THEN rollover(thisday) ELSE thisday
           item == [msg |-> msg, dat |-> combine(day, msg.time), n |-> n + 1]
           r == it_fits(gpsstack, item)
           med == median(r.stack)
       IN  /\ first_GGA' = FALSE
           /\ thisday' = day
           /\ prev_time' = msg.time
           /\ bb' = update(bb, strim(msg.lat), strim(msg.lon))
           /\ GAPS' = GAPS \o r.gaps
           /\ accepted' = Append(accepted, item)
           /\ i' = i + 1
           /\ UNCHANGED msg_stash
           /\ IF r.fits
              THEN /\ gpsstack' = r.stack
                   /\ UNCHANGED <<tp, trkfile, stack_max, flushed>>
              ELSE /\ gpsstack' = push(flush(r.stack), item)
                   /\ stack_max' = new_stack_max(r.stack, stack_max)
                   /\ flushed' = Append(flushed, r.stack.items)
                   /\ trkfile' = Append(trkfile, trkpt(med, fix_of(med.quality, msg.quality)))
                   /\ tp' = tp + 1

\* a GGA that is kept but has an empty latitude or longitude: the day and
\* prev_time are set as for any kept GGA, then bb.update() raises TypeError,
\* which is none of the NMEA errors the except clause catches: the
\* exception leaves reader
BlankFix(msg) ==
    /\ pc = "reading"
    /\ n < limit
    /\ ~no_date(thisday)
    /\ ~skip_first(first_GGA, msg.time, prev_time)
    /\ ~(backward(msg.time, prev_time) /\ in_grace(prev_time, msg.time))
    /\ update_raises(strim(msg.lat), strim(msg.lon))
    /\ pc' = "TypeError"
    /\ n' = n + 1
    /\ stream' = Append(stream, msg)
    /\ first_GGA' = FALSE
    /\ thisday' = IF backward(msg.time, prev_time) THEN rollover(thisday) ELSE thisday
    /\ prev_time' = msg.time
    /\ UNCHANGED <<gpsstack, bb, i, tp, trkfile, msg_stash, GAPS, stack_max,
                   limit, ret, files, accepted, flushed>>
    /\ UNCHANGED loggervars

\* the stream ends: write_gpx_tlr(), return bb
EndOfStream ==
    /\ pc = "reading"
    /\ pc' = "done"
    /\ UNCHANGED <<thisday, gpsstack, prev_time, first_GGA, bb, i, n, tp,
                   trkfile, msg_stash, GAPS, stack_max, limit, ret, files,
                   stream, accepted, flushed>>
    /\ UNCHANGED loggervars

\* One step is one pass of the loop body, or the end of the stream. The
\* sentences are GGAs and sentences with a date; a sentence that is neither
\* only counts in n.
Next ==
    \/ \E msg \in DateSentences : DateSentence(msg)
    \/ \E msg \in Positions : SkipNoDate(msg)
    \/ \E msg \in Positions : SkipFirstGGA(msg)
    \/ \E msg \in Positions : SkipBackward(msg)
    \/ \E msg \in Positions : AcceptFix(msg)
    \/ \E msg \in Positions : BlankFix(msg)
    \/ EndOfStream

Spec == Init /\ [][Next]_vars

\* -------------------------------------- the tracker on one tight cluster

\* The stream of one cluster: a date-bearing sentence and 300 position
\* sentences of quality 1 a second apart, each 33 cm from the one before.
TightStream ==
    [k \in 1..301 |->
        IF k = 1 THEN RMC(1, 2) ELSE GGA(k, 34 + 30 * (k % 2), 1, 77, 157)]

\* the sentence the for loop yields next, if there is one
NextOfTight == {TightStream[k] : k \in {n + 1} \cap DOMAIN TightStream}

\* A tracker whose stack was made with max_size 200 (MAXSTACK), or with
\* another max_size, set to read TightStream.
InitCapacity ==
    /\ pc = "reading"
    /\ gpsstack \in {Stack(c) : c \in {MAXSTACK, 250, 299, 300, 400}}
    /\ limit = Len(TightStream)
    /\ Fresh

NextCapacity ==
    \/ \E msg \in NextOfTight \cap DateSentences : DateSentence(msg)
    \/ \E msg \in NextOfTight \ DateSentences : AcceptFix(msg)
    \/ n = limit /\ EndOfStream

SpecCapacity == InitCapacity /\ [][NextCapacity]_vars

\* ------------------------------------------------- a Stack under calls

\* The items offered: msg_item = (msg, dat). On the meridian of 10 units,
\* every latitude at 00:01:40, 01:31:40 and 01:31:41 of day 1; one of
\* quality 2; and one 150 units west of Greenwich.
StackItems ==
    {[msg |-> GGA(t, la, 1, 77, 157), dat |-> combine(1, t), n |-> 0] :
        t \in {100, 5500, 5501}, la \in Lats}
    \cup {[msg |-> GGA(100, 34, 2, 77, 157), dat |-> combine(1, 100), n |-> 0],
          [msg |-> [GGA(100, 34, 1, 77, 157) EXCEPT !.lon = -150],
           dat |-> combine(1, 100), n |-> 0]}

\* Stack(max_size), and nothing else of the program at work
InitStack ==
    /\ pc = "stack"
    /\ gpsstack \in {Stack(c) : c \in 1..MaxSize}
    /\ limit = MaxOps
    /\ Fresh

\* one more call on the stack
Calls ==
    /\ pc = "stack"
    /\ n < limit
    /\ n' = n + 1
    /\ UNCHANGED <<thisday, prev_time, first_GGA, bb, i, tp, trkfile,
                   msg_stash, limit, files, stream, accepted, flushed>>
    /\ UNCHANGED loggervars

CallItFits(item) ==
    /\ Calls
    /\ LET r == it_fits(gpsstack, item)
       IN  /\ gpsstack' = r.stack
           /\ GAPS' = GAPS \o r.gaps
           /\ ret' = [op |-> "it_fits", arg |-> item, val |-> r.fits]
    /\ UNCHANGED <<pc, stack_max>>

\* push() as reader calls it: on the stack it has just flushed
CallPush(item) ==
    /\ Calls
    /\ is_empty(gpsstack)
    /\ gpsstack' = push(gpsstack, item)
    /\ ret' = [op |-> "push", arg |-> item]
    /\ UNCHANGED <<pc, GAPS, stack_max>>

CallFlush ==
    /\ Calls
    /\ gpsstack' = flush(gpsstack)
    /\ stack_max' = new_stack_max(gpsstack, stack_max)
    /\ ret' = [op |-> "flush"]
    /\ UNCHANGED <<pc, GAPS>>

CallMedian ==
    /\ Calls
    /\ ret' = median_call(gpsstack)
    /\ pc' = IF ret'.raised THEN "IndexError" ELSE pc
    /\ UNCHANGED <<gpsstack, GAPS, stack_max>>

CallIsEmpty ==
    /\ Calls
    /\ ret' = [op |-> "is_empty", val |-> is_empty(gpsstack)]
    /\ UNCHANGED <<pc, gpsstack, GAPS, stack_max>>

CallIsFull ==
    /\ Calls
    /\ ret' = [op |-> "is_full", val |-> is_full(gpsstack)]
    /\ gpsstack' = after_is_full(gpsstack)
    /\ UNCHANGED <<pc, GAPS, stack_max>>

NextStack ==
    \/ \E item \in StackItems : CallItFits(item)
    \/ \E item \in StackItems : CallPush(item)
    \/ CallFlush
    \/ CallMedian
    \/ CallIsEmpty
    \/ CallIsFull

SpecStack == InitStack /\ [][NextStack]_vars

\* -------------------------------------------- a BoundingBox under calls

\* The points passed: the corners of a one-degree square at 0N 0E, a point
\* south-west of it, and the poles at 100E and 100W (the sum of two
\* longitudes, as centroid() takes it, stays a 32-bit integer).
BoxPoints ==
    {<<la * DEG, lo * DEG>> : la \in {0, 1}, lo \in {0, 1}}
        \cup {<<-DEG, -DEG>>, <<90 * DEG, 100 * DEG>>, <<-90 * DEG, -100 * DEG>>}

\* BoundingBox(), and nothing else of the program at work
InitBox ==
    /\ pc = "box"
    /\ gpsstack = Stack(MAXSTACK)
    /\ limit = MaxOps
    /\ Fresh

CallUpdate(lat, lon) ==
    /\ pc = "box"
    /\ n < limit
    /\ n' = n + 1
    /\ bb' = update(bb, lat, lon)
    /\ stream' = Append(stream, <<lat, lon>>)
    /\ UNCHANGED <<pc, thisday, gpsstack, prev_time, first_GGA, i, tp, trkfile,
                   msg_stash, GAPS, stack_max, limit, ret, files, accepted,
                   flushed>>
    /\ UNCHANGED loggervars

NextBox == \E p \in BoxPoints : CallUpdate(p[1], p[2])

SpecBox == InitBox /\ [][NextBox]_vars

\* ------------------------------------------------ main() on three files

\* mutant: the next tracker is given the stack of the one before
same_stack(S) == S

\* NMEATracker.__init__: self._gpsstack = Stack(MAXSTACK)
new_stack(S) == Stack(MAXSTACK)

\* The sentences of the files: a date, two fixes a metre and 7 s apart, and
\* one at 23:59:58.
FileDates == {RMC(1, 2)}

FileFixes ==
    {GGA(5, 4, 1, 77, 157), GGA(12, 94, 1, 77, 157), GGA(86398, 4, 1, 77, 157)}

\* The third file holds the sentences of the first over again; the others
\* hold any.
MayRead(msg) ==
    IF Len(files) < 2 THEN TRUE
    ELSE n < Len(files[1].stream) /\ msg = files[1].stream[n + 1]

MayEnd == IF Len(files) < 2 THEN TRUE ELSE n = Len(files[1].stream)

InitFiles ==
    /\ pc = "reading"
    /\ gpsstack = Stack(MAXSTACK)
    /\ limit = MaxFileLen
    /\ Fresh

\* main(): reader has returned and the file is closed; msg_stash = [] and a
\* new NMEATracker for the next file, whose reader() starts. The module
\* globals GAPS and stack_max stay as they are.
NextFile ==
    /\ pc = "done"
    /\ Len(files) < 2
    /\ files' = Append(files, [stream |-> stream, trkfile |-> trkfile])
    /\ pc' = "reading"
    /\ thisday' = NoDay
    /\ gpsstack' = new_stack(gpsstack)
    /\ prev_time' = MIDNIGHT
    /\ first_GGA' = TRUE
    /\ bb' = BoundingBox
    /\ i' = 0
    /\ n' = 0
    /\ tp' = 0
    /\ trkfile' = <<>>
    /\ msg_stash' = <<>>
    /\ stream' = <<>>
    /\ accepted' = <<>>
    /\ flushed' = <<>>
    /\ UNCHANGED <<GAPS, stack_max, limit, ret>>
    /\ UNCHANGED loggervars

NextFiles ==
    \/ \E msg \in FileDates : MayRead(msg) /\ DateSentence(msg)
    \/ \E msg \in FileFixes : MayRead(msg) /\ SkipNoDate(msg)
    \/ \E msg \in FileFixes : MayRead(msg) /\ SkipFirstGGA(msg)
    \/ \E msg \in FileFixes : MayRead(msg) /\ SkipBackward(msg)
    \/ \E msg \in FileFixes : MayRead(msg) /\ AcceptFix(msg)
    \/ MayEnd /\ EndOfStream
    \/ NextFile

SpecFiles == InitFiles /\ [][NextFiles]_vars

\* ---------------------------------------------- a Bad_stash under calls

\* The puts made: poor fixes (HDOP 3.00, 99.00, 99.99) at 00:00:05 and at
\* 00:00:12, each with its raw sentence, its parsed sentence and its
\* position.
StashPuts ==
    {[raw |-> [msgID |-> "GGA", time |-> t, HDOP |-> h],
      parsed |-> [msgID |-> "GGA", time |-> t, HDOP |-> h, lat |-> 34],
      hdop |-> h, lat |-> 34, lon |-> 10, t |-> t] :
        h \in {HDOP_LIMIT, WORST_HDOP, 9999}, t \in {5, 12}}

\* Bad_stash(), and nothing else of the program at work
InitStash ==
    /\ pc = "stash"
    /\ gpsstack = Stack(MAXSTACK)
    /\ limit = MaxOps
    /\ Fresh

\* one more call on the stash
StashCalls ==
    /\ pc = "stash"
    /\ n < limit
    /\ n' = n + 1
    /\ UNCHANGED <<pc, limit, files, stream, trackervars>>
    /\ UNCHANGED <<data_stack, pre_date_stack, lastday, msgcount, af, tries,
                   total_tries, wait, first_time, connect_failure, restarts,
                   attempts, pings>>

CallStashPut(p) ==
    /\ StashCalls
    /\ poor_data' = Bad_stash_put(poor_data, p.raw, p.parsed, p.hdop,
                                  p.lat, p.lon, p.t)
    /\ puts' = Append(puts, p)
    /\ ret' = [op |-> "put"]

CallStashGet ==
    /\ StashCalls
    /\ ret' = Bad_stash_get(poor_data)
    /\ UNCHANGED <<poor_data, puts>>

CallStashFlush ==
    /\ StashCalls
    /\ poor_data' = Bad_stash_flush(poor_data)
    /\ puts' = <<>>
    /\ ret' = [op |-> "flush"]

CallStashIsAvailable ==
    /\ StashCalls
    /\ ret' = [op |-> "is_available", val |-> Bad_stash_is_available(poor_data)]
    /\ UNCHANGED <<poor_data, puts>>

NextStash ==
    \/ \E p \in StashPuts : CallStashPut(p)
    \/ CallStashGet
    \/ CallStashFlush
    \/ CallStashIsAvailable

SpecStash == InitStash /\ [][NextStash]_vars

\* ------------------------------------------- nmealogger.py: parsestream

\* The sentences NMEAReader yields, parsed: RMC has a date and a position
\* and no HDOP, GGA a position and an HDOP and no date.
LoggerRMC(d) ==
    [msgID |-> "RMC", date |-> d, time |-> 1, lat |-> 34, lon |-> 10,
     HDOP |-> NoHdop]

LoggerGGA(h, la) ==
    [msgID |-> "GGA", date |-> NoDay, time |-> 5, lat |-> la, lon |-> 10,
     HDOP |-> h]

\* RMC of day 1 and of day 2; GGA of HDOP 1.00, of 2.00, of 4.50 (poor), and
\* one without a position
LoggerSentences ==
    {LoggerRMC(1), LoggerRMC(2), LoggerGGA(100, 34), LoggerGGA(200, 34),
     LoggerGGA(450, 34), LoggerGGA(9999, Blank)}

\* 'date' in d and d['date'] != ""
has_date(msg) == msg.date # NoDay

\* the raw sentence, as it is received: rcv is the number of archive files
\* opened before the one open when it is received
raw_of(msg) == [msg |-> msg, rcv |-> restarts]

\* readstream and parsestream as they start: nothing received yet
InitLogger ==
    /\ pc = "logging"
    /\ gpsstack = Stack(MAXSTACK)
    /\ limit = MaxSentences
    /\ Fresh

\* the same after LONG_ENOUGH - 1 sentences of day 1 have been counted, the
\* date sentence written to the archive, and nothing waiting in the stacks
InitLongRun ==
    /\ pc = "logging"
    /\ gpsstack = Stack(MAXSTACK)
    /\ limit = MaxSentences
    /\ thisday = 1
    /\ lastday = 1
    /\ msgcount = LONG_ENOUGH - 1
    /\ af = <<[msg |-> LoggerRMC(1), rcv |-> 0]>>
    /\ prev_time = MIDNIGHT
    /\ first_GGA = TRUE
    /\ bb = BoundingBox
    /\ i = 0
    /\ n = 0
    /\ tp = 0
    /\ trkfile = <<>>
    /\ msg_stash = <<>>
    /\ GAPS = <<>>
    /\ stack_max = 0
    /\ ret = NoCall
    /\ files = <<>>
    /\ stream = <<>>
    /\ accepted = <<>>
    /\ flushed = <<>>
    /\ poor_data = Bad_stash
    /\ data_stack = LoggerStack(RUNNING_STACK)
    /\ pre_date_stack = LoggerStack(PREDATE_STACK)
    /\ tries = 1
    /\ total_tries = 1
    /\ wait = 1
    /\ first_time = TRUE
    /\ connect_failure = FALSE
    /\ restarts = 0
    /\ puts = <<>>
    /\ attempts = [all |-> 0, failed |-> 0]
    /\ pings = <<>>

\* what no step of parsestream changes
LoggerFrame ==
    /\ UNCHANGED <<gpsstack, prev_time, first_GGA, bb, i, tp, trkfile,
                   msg_stash, GAPS, stack_max, accepted, flushed>>
    /\ UNCHANGED <<limit, ret, files, stream, tries, total_tries, wait,
                   first_time, connect_failure, puts, attempts, pings>>

\* the for loop of parsestream takes one more item from nmr
Yields ==
    /\ pc = "logging"
    /\ n < limit
    /\ n' = n + 1
    /\ pc' = pc
    /\ LoggerFrame

\* data_stack over a restart of the log files: the module global is left
\* as it is
data_stack_kept(S) == S

\* NewDay or NewLogs leaves parsestream and the with blocks of readstream,
\* which closes the archive file; readstream's loop zeroes msgcount, opens
\* the next archive file (named by the minute, taken to be a new one) and
\* calls parsestream, which makes its locals anew
Restart ==
    /\ thisday' = NoDay
    /\ lastday' = NoDay
    /\ pre_date_stack' = LoggerStack(PREDATE_STACK)
    /\ poor_data' = Bad_stash
    /\ msgcount' = 0
    /\ af' = <<>>
    /\ restarts' = restarts + 1
    /\ data_stack' = data_stack_kept(data_stack)

\* msgcount > LONG_ENOUGH - 1: raise NewLogs
RaiseNewLogs(msg) ==
    /\ Yields
    /\ msgcount > LONG_ENOUGH - 1
    /\ Restart

\* nmr raises NMEAParseError: pre_date_stack.flush(), and the while loop
\* goes back to the for loop
ParseError ==
    /\ Yields
    /\ pre_date_stack' = logger_flush(pre_date_stack)
    /\ UNCHANGED <<thisday, lastday, poor_data, msgcount, af, restarts,
                   data_stack>>

\* not parsed_data: continue
Unparsed ==
    /\ Yields
    /\ msgcount <= LONG_ENOUGH - 1
    /\ UNCHANGED <<thisday, lastday, poor_data, msgcount, af, restarts,
                   data_stack, pre_date_stack>>

\* archivefilename or rawfilename is no longer a file: FileNotFoundError
\* ends readstream
FileGone ==
    /\ pc = "logging"
    /\ n < limit
    /\ msgcount <= LONG_ENOUGH - 1
    /\ pc' = "FileNotFoundError"
    /\ n' = n + 1
    /\ LoggerFrame
    /\ UNCHANGED <<thisday, lastday, poor_data, msgcount, af, restarts,
                   data_stack, pre_date_stack>>

\* a date other than lastday: pre_date_stack.flush(); raise NewDay
DateChanged(msg) ==
    /\ Yields
    /\ msgcount <= LONG_ENOUGH - 1
    /\ has_date(msg)
    /\ thisday # NoDay
    /\ msg.date # lastday
    /\ Restart

\* no date yet in this run of parsestream: a sentence with lat, lon and
\* HDOP goes to pre_date_stack, which is flushed when full; continue
BeforeDate(msg) ==
    /\ Yields
    /\ msgcount <= LONG_ENOUGH - 1
    /\ ~has_date(msg)
    /\ thisday = NoDay
    /\ pre_date_stack' =
          IF msg.HDOP # NoHdop
          THEN LET S == logger_push(pre_date_stack, <<raw_of(msg), msg.HDOP>>)
               IN  IF logger_is_full(S) THEN logger_flush(S) ELSE S
          ELSE pre_date_stack
    /\ UNCHANGED <<thisday, lastday, poor_data, msgcount, af, restarts,
                   data_stack>>

\* the sentence goes through the body of the loop
Passes(msg) ==
    /\ msgcount <= LONG_ENOUGH - 1
    /\ IF has_date(msg)
       THEN thisday = NoDay \/ msg.date = lastday
       ELSE thisday # NoDay

\* the archive file once the date sentence is dealt with: the first date
\* sentence of this run of parsestream is written to it
af_dated(msg) ==
    IF has_date(msg) /\ thisday = NoDay THEN Append(af, raw_of(msg)) ELSE af

\* a sentence with a position, written to the raw file, which does not
\* grow: pre_date_stack.flush(); raise NewDay
RawFileStuck(msg) ==
    /\ Yields
    /\ Passes(msg)
    /\ strim(msg.lat) # Blank
    /\ Restart

\* a sentence that goes through the body: the first date is kept and
\* written to the archive and what waited for it thrown away; a position
\* with an HDOP of HDOP_LIMIT or more goes to poor_data, another to
\* data_stack, whose best is written to the archive when it is full; late:
\* more than MAX_WAIT_GNSS since got_data_at, when what poor_data holds is
\* written instead; msgcount counts the sentence
Logged(msg, late) ==
    /\ Yields
    /\ Passes(msg)
    /\ LET first == has_date(msg) /\ thisday = NoDay
           pos == strim(msg.lat) # Blank
           poor == pos /\ msg.HDOP # NoHdop /\ msg.HDOP >= HDOP_LIMIT
           good == pos /\ msg.HDOP # NoHdop /\ msg.HDOP < HDOP_LIMIT
           pushed == logger_push(data_stack, <<raw_of(msg), msg.HDOP>>)
           full == good /\ logger_is_full(pushed)
           stash == IF poor
                    THEN Bad_stash_put(poor_data, raw_of(msg), msg, msg.HDOP,
                                       strim(msg.lat), strim(msg.lon), msg.time)
                    ELSE poor_data
           af1 == IF full THEN Append(af_dated(msg), logger_best(pushed))
                  ELSE af_dated(msg)
           timeout == pos /\ late
       IN  /\ late => ~full
           /\ thisday' = IF has_date(msg) THEN msg.date ELSE thisday
           /\ lastday' = IF first THEN msg.date ELSE lastday
           /\ pre_date_stack' =
                 IF first THEN logger_flush(pre_date_stack) ELSE pre_date_stack
           /\ data_stack' = IF full THEN logger_flush(pushed)
                            ELSE IF good THEN pushed ELSE data_stack
           /\ IF timeout /\ Bad_stash_is_available(stash)
              THEN /\ af' = Append(af1, Bad_stash_get(stash).val[1])
                   /\ poor_data' = Bad_stash_flush(stash)
              ELSE /\ af' = af1
                   /\ poor_data' = stash
           /\ msgcount' = msgcount + 1
           /\ UNCHANGED restarts

NextLogger ==
    \/ \E msg \in LoggerSentences : RaiseNewLogs(msg)
    \/ ParseError
    \/ Unparsed
    \/ FileGone
    \/ \E msg \in LoggerSentences : DateChanged(msg)
    \/ \E msg \in LoggerSentences : BeforeDate(msg)
    \/ \E msg \in LoggerSentences : RawFileStuck(msg)
    \/ \E msg \in LoggerSentences, late \in BOOLEAN : Logged(msg, late)

SpecLogger == (InitLogger \/ InitLongRun) /\ [][NextLogger]_vars

\* ------------------------------------- nmealogger.py: the connect loop

\* __main__ as its loop starts; connect_failure.txt may be there from an
\* earlier run, and first_time is set from it
InitConnect ==
    /\ pc = "connecting"
    /\ gpsstack = Stack(MAXSTACK)
    /\ limit = MaxAttempts
    /\ FreshButFlag
    /\ connect_failure \in BOOLEAN
    /\ first_time = ~connect_failure

\* what no step of the connect loop changes
ConnectFrame ==
    /\ UNCHANGED trackervars
    /\ UNCHANGED <<n, limit, ret, files, stream, poor_data, data_stack,
                   pre_date_stack, lastday, msgcount, af, restarts, puts,
                   first_time>>

\* the for loop goes to its next wait; after the last one the while loop
\* sets tries = 1 and starts the for loop again
next_wait(w) == IF w = Len(WAITS_LIST) THEN 1 ELSE w + 1

next_tries(w, t) == IF w = Len(WAITS_LIST) THEN 1 ELSE t

\* one more sock.connect((SERVER, PORT))
Attempt(failed) ==
    /\ pc = "connecting"
    /\ attempts.all < limit
    /\ attempts' = [all |-> attempts.all + 1,
                    failed |-> attempts.failed + (IF failed THEN 1 ELSE 0)]
    /\ ConnectFrame

\* connect succeeds: clear_noconnect_flag(), readstream(sock)
Connects ==
    /\ Attempt(FALSE)
    /\ connect_failure' = FALSE
    /\ pc' = "readstream"
    /\ UNCHANGED <<tries, total_tries, wait, pings>>

\* readstream returns (it left its loop by break): the for loop goes on
\* with its next wait and a new socket
ReadstreamReturns ==
    /\ pc = "readstream"
    /\ pc' = "connecting"
    /\ wait' = next_wait(wait)
    /\ tries' = next_tries(wait, tries)
    /\ ConnectFrame
    /\ UNCHANGED <<total_tries, connect_failure, attempts, pings>>

\* connect raises something other than OSError: sys.exit(1)
UnexpectedException ==
    /\ Attempt(TRUE)
    /\ pc' = "exit"
    /\ UNCHANGED <<tries, total_tries, wait, connect_failure, pings>>

\* the attempt is the last of its cycle and has failed: it_is_alive() is
\* asked
pings_device == tries >= max_tries

\* total_tries >= max_total_tries
gives_up(total) == total >= max_total_tries

\* OSError, and the loop goes on: tries and total_tries are counted up and
\* the wait slept
Retry(alive) ==
    /\ Attempt(TRUE)
    /\ IF pings_device
       THEN alive /\ ~gives_up(total_tries) /\ pings' = Append(pings, alive)
       ELSE UNCHANGED pings
    /\ total_tries' = total_tries + 1
    /\ tries' = next_tries(wait, tries + 1)
    /\ wait' = next_wait(wait)
    /\ UNCHANGED <<pc, connect_failure>>

\* wait_and_exit(): the flag file is set if it is not there, the wait
\* slept, sys.exit(1)
wait_and_exit ==
    /\ pc' = "wait_and_exit"
    /\ connect_failure' = TRUE
    /\ UNCHANGED <<tries, total_tries, wait>>

\* OSError on the last attempt of a cycle, and no answer to ping
NoPing ==
    /\ Attempt(TRUE)
    /\ pings_device
    /\ pings' = Append(pings, FALSE)
    /\ wait_and_exit

\* OSError on the last attempt of a cycle, ping answered, and total_tries
\* has reached max_total_tries
GivesUp ==
    /\ Attempt(TRUE)
    /\ pings_device
    /\ pings' = Append(pings, TRUE)
    /\ gives_up(total_tries)
    /\ wait_and_exit

NextConnect ==
    \/ Connects
    \/ ReadstreamReturns
    \/ UnexpectedException
    \/ \E alive \in BOOLEAN : Retry(alive)
    \/ NoPing
    \/ GivesUp

SpecConnect == InitConnect /\ [][NextConnect]_vars

\* =============================================================== claims

Last(sq) == sq[Len(sq)]

\* the sentence the step reads
Read == stream'[Len(stream')]

\* the step reads a GGA and offers it to the stack
Offers == i' = i + 1

\* ------------------------------------------------------------------- C1

\* C1: when the stream ends while the current cluster is non-empty, the
\* cluster is flushed and exactly one more TrackPoint is written for it
\* before reader returns.
C1_FinalFlush ==
    [][(pc = "reading" /\ pc' = "done" /\ ~is_empty(gpsstack))
         => /\ Len(trkfile') = Len(trkfile) + 1
            /\ Last(trkfile').time = Last(gpsstack.items).dat
            /\ flushed' = Append(flushed, gpsstack.items)
            /\ is_empty(gpsstack')]_vars

\* ------------------------------------------------------------------- C2

\* a date-bearing sentence followed by position sentences only
C2_DatedFixes ==
    /\ Len(stream) >= 2
    /\ stream[1].msgID = "RMC"
    /\ \A k \in 2..Len(stream) : stream[k].msgID = "GGA"

\* two positions are more than the jiggle threshold (68 cm) apart, on the
\* model's scale of 1.11 cm to the unit
C2_Apart(a, b) ==
    LET dy == (a.lat - b.lat) * 111
        dx == (a.lon - b.lon) * 111
    IN  dx * dx + dy * dy > 6800 * 6800

\* the fixes have one quality, increasing times of day, and lie within the
\* jiggle threshold and within 90 minutes of each other
C2_Tight ==
    /\ C2_DatedFixes
    /\ \A k \in 2..Len(stream) : stream[k].quality = stream[2].quality
    /\ \A k \in 2..(Len(stream) - 1) : stream[k].time < stream[k + 1].time
    /\ \A k, l \in 2..Len(stream) :
          /\ ~C2_Apart(stream[k], stream[l])
          /\ stream[l].time - stream[k].time <= 90 * 60

\* v is total/num to the output's resolution (half a step)
C2_IsMean(v, total, num, step) ==
    /\ 2 * (num * v - total) <= num * step
    /\ 2 * (total - num * v) <= num * step

\* C2: a whole stream of dated fixes of one quality, with increasing times,
\* all within the jiggle threshold and the maximum cluster duration of each
\* other, yields exactly one TrackPoint: the mean lat, lon and altitude and
\* the maximum HDOP of the fixes.
C2_OnePointMean ==
    (pc = "done" /\ C2_Tight) =>
        LET num == Len(stream) - 1
            fx == [k \in 1..num |-> stream[k + 1]]
        IN  /\ Len(trkfile) = 1
            /\ C2_IsMean(trkfile[1].lat, Sum([k \in 1..num |-> fx[k].lat], num), num, 10)
            /\ C2_IsMean(trkfile[1].lon, Sum([k \in 1..num |-> fx[k].lon], num), num, 10)
            /\ C2_IsMean(trkfile[1].ele, Sum([k \in 1..num |-> fx[k].alt], num), num, 1)
            /\ \A k \in 1..num : trkfile[1].hdop >= fx[k].HDOP
            /\ \E k \in 1..num : trkfile[1].hdop = fx[k].HDOP

\* ------------------------------------------------------------------- C3

\* the clusters so far: those flushed, then the current one
C3_Clusters == Append(flushed, gpsstack.items)

\* the places <<cluster, position>> at which the fix read as sentence k sits
C3_Places(k) ==
    {pl \in (1..Len(C3_Clusters)) \X (1..MaxLen + 1) :
        /\ pl[2] <= Len(C3_Clusters[pl[1]])
        /\ C3_Clusters[pl[1]][pl[2]].n = k}

\* C3: after any prefix of the stream every accepted fix is a member of
\* exactly one cluster, flushed or current, every member of a cluster is an
\* accepted fix, and the TrackPoints written are as many as the flushes.
C3_Partition ==
    /\ i = Len(accepted)
    /\ \A a \in 1..Len(accepted) :
          /\ Cardinality(C3_Places(accepted[a].n)) = 1
          /\ \A pl \in C3_Places(accepted[a].n) :
                C3_Clusters[pl[1]][pl[2]] = accepted[a]
    /\ \A c \in 1..Len(C3_Clusters) : \A k \in 1..Len(C3_Clusters[c]) :
          \E a \in 1..Len(accepted) : accepted[a] = C3_Clusters[c][k]
    /\ Len(trkfile) = Len(flushed)
    /\ tp = Len(trkfile)

\* C3 witness: one cluster flushed, two fixes in the current one
C3_Witness == Len(flushed) = 1 /\ Len(gpsstack.items) = 2 /\ Len(accepted) = 3

\* ------------------------------------------------------------------- C4

\* the fix written for a cluster: that of its first member
C4_Fix(quality) ==
    IF quality = 1 THEN "3d" ELSE IF quality = 2 THEN "2d" ELSE "none"

\* C4: when the current cluster rejects a dated fix, one TrackPoint is
\* written, computed from the members the cluster held; the cluster is
\* emptied and given the rejected fix, so that right after it holds that fix
\* alone and its first timestamp is the fix's.
C4_RejectRestarts ==
    [][(Offers /\ ~it_fits(gpsstack, Last(accepted')).fits)
         => LET item == Last(accepted')
                med == median(gpsstack)
            IN  /\ trkfile' = Append(trkfile, trkpt(med, C4_Fix(med.quality)))
                /\ gpsstack'.items = <<item>>
                /\ gpsstack'.first = item.dat
                /\ item.msg = Read]_vars

\* ------------------------------------------------------------------- C5

\* C5: while no date-bearing sentence has been seen every position fix is
\* discarded: none is offered to the cluster, the whole-stream BoundingBox
\* is as constructed and no TrackPoint is written.
C5_AwaitingDate ==
    thisday = NoDay =>
        /\ gpsstack = Stack(MAXSTACK)
        /\ bb = BoundingBox
        /\ trkfile = <<>>
        /\ accepted = <<>>
        /\ i = 0
        /\ msg_stash = [k \in 1..Len(stream) |-> <<k, stream[k]>>]

\* only fixes read after the first date-bearing sentence are clustered
C5_ClusteredAfterDate ==
    \A a \in 1..Len(accepted) :
        \E k \in 1..(accepted[a].n - 1) : stream[k].msgID = "RMC"

C5_NoDateNoFix == C5_AwaitingDate /\ C5_ClusteredAfterDate

\* C5 witness: two position fixes read and discarded, no date yet
C5_Witness ==
    /\ thisday = NoDay
    /\ Len(stream) = 2
    /\ Len(msg_stash) = 2
    /\ stream[2].msgID = "GGA"

\* ------------------------------------------------------------------- C6

\* 23:59:50 with the date (day 1), then 23:59:58, 00:00:05, 00:00:12
C6_Scenario ==
    <<RMC(86390, 1), GGA(86398, 34, 1, 77, 157), GGA(5, 34, 1, 77, 157),
      GGA(12, 34, 1, 77, 157)>>

\* C6: in the stream 23:59:50 (with the date), 23:59:58, 00:00:05, 00:00:12
\* the date of the fixes goes up exactly once, between 23:59:58, which
\* keeps the date, and 00:00:05, which like 00:00:12 is of the next day.
C6_RollsOverOnce ==
    /\ (stream = SubSeq(C6_Scenario, 1, 2)) =>
          /\ thisday = 1
          /\ Len(accepted) = 1 /\ accepted[1].dat = combine(1, 86398)
    /\ (stream = C6_Scenario) =>
          /\ thisday = 2
          /\ Len(accepted) = 3
          /\ accepted[1].dat = combine(1, 86398)
          /\ accepted[2].dat = combine(2, 5)
          /\ accepted[3].dat = combine(2, 12)

\* ------------------------------------------------------------------- C7

\* fix k of the stream steps back 30 s from the fix before it
C7_Jump(k) == stream[k].time = stream[k - 1].time - 30

\* a dated stream of fixes whose times of day go up from fix to fix but for
\* one step back of 30 seconds
C7_SingleJump30 ==
    /\ Len(stream) >= 3
    /\ C2_DatedFixes
    /\ \E j \in 3..Len(stream) :
          /\ C7_Jump(j)
          /\ \A k \in (3..Len(stream)) \ {j} : stream[k].time > stream[k - 1].time

\* the stream's first fix is not passed over as the first GGA after the date
C7_FirstKept == ~skip_first(TRUE, stream[2].time, MIDNIGHT)

\* C7 as stated: a single backward jump of 30 seconds in a dated stream of
\* otherwise increasing times discards exactly one fix, and the held date
\* is not incremented.
C7_OneDiscard ==
    (C7_SingleJump30 /\ C7_FirstKept) =>
        Len(msg_stash) = 1 /\ thisday = stream[1].date

\* C7 amended: the fixes discarded are the one that steps back and those
\* after it whose time of day is still before that of the last fix kept
\* (the one before the step); the held date is not incremented.
C7_DiscardsUntilCaughtUp ==
    (C7_SingleJump30 /\ C7_FirstKept) =>
        LET j == CHOOSE k \in 3..Len(stream) : C7_Jump(k)
            late == {k \in j..Len(stream) : stream[k].time < stream[j - 1].time}
        IN  /\ thisday = stream[1].date
            /\ j \in late
            /\ {msg_stash[x][1] : x \in 1..Len(msg_stash)} = late
            /\ Len(msg_stash) = Cardinality(late)
            /\ Len(accepted) = Len(stream) - 1 - Cardinality(late)

\* C7 witness: after the step back of 30 s a second fix is discarded
C7_Witness == C7_SingleJump30 /\ C7_FirstKept /\ Len(msg_stash) = 2

\* ------------------------------------------------------------------- C8

\* the step reads a date-bearing sentence whose date is not the held one
C8_OtherDate ==
    /\ thisday # NoDay
    /\ n' = n + 1
    /\ Read.msgID = "RMC"
    /\ Read.date # thisday

\* C8 as stated: once a date is held, a date-bearing sentence reporting
\* another date sets the held date to the date reported.
C8_DateUpdated == [][C8_OtherDate => thisday' = Read.date]_vars

\* C8 amended: once a date is held, a date-bearing sentence reporting
\* another date leaves the held date as it is, and every fix kept is
\* timestamped on the held date, which changes by rollover only.
C8_DateKept ==
    [][/\ C8_OtherDate => thisday' = thisday
       /\ thisday # NoDay => thisday' \in {thisday, thisday + 1}
       /\ Offers => Last(accepted').dat = thisday' * 86400 + Read.time]_vars

\* C8 witness: day 1 held, day 2 reported, and a fix kept after that on day 1
C8_Witness ==
    /\ Len(stream) >= 3
    /\ stream[1] = RMC(86390, 1)
    /\ stream[2] = RMC(1, 2)
    /\ thisday = 1
    /\ Len(accepted) >= 1
    /\ Last(accepted).dat \div 86400 = 1

\* ------------------------------------------------------------------- C9

\* C9: the timestamps of the TrackPoints written are non-decreasing in the
\* order written.
C9_Monotonic ==
    \A k \in 1..(Len(trkfile) - 1) : trkfile[k].time <= trkfile[k + 1].time

\* C9 witness: two points written, the second for a fix before midnight,
\* and the day rolled over since
C9_Witness ==
    /\ Len(trkfile) = 2
    /\ trkfile[1].time < trkfile[2].time
    /\ thisday = stream[1].date + 1
    /\ Last(gpsstack.items).dat > trkfile[2].time

\* ------------------------------------------------------------------ C10

\* the accepted fixes k and k + 1 are more than the threshold apart
C10_Discontinuity(k) == C2_Apart(accepted[k].msg, accepted[k + 1].msg)

\* C10 as stated: the flushes are at least as many as the pairs of
\* consecutive fixes more than the jiggle threshold apart.
C10_FlushPerJump ==
    Cardinality({k \in 1..(Len(accepted) - 1) : C10_Discontinuity(k)})
        <= Len(flushed)

RECURSIVE C10_Box(_, _)
\* the bounding box of the first k members of a cluster
C10_Box(c, k) ==
    IF k = 0 THEN BoundingBox
    ELSE update(C10_Box(c, k - 1), c[k].msg.lat, c[k].msg.lon)

\* m is more than the threshold from the centre of box
C10_OffCentre(box, m) ==
    LET dy == (2 * m.lat - (box.minlat + box.maxlat)) * 111
        dx == (2 * m.lon - (box.minlon + box.maxlon)) * 111
    IN  dx * dx + dy * dy > 13600 * 13600

\* C10 amended: a fix farther than the jiggle threshold from the centre of
\* the current cluster's bounding box is not added to it: the cluster is
\* flushed and the fix starts the next one. So every member of a cluster but
\* its first lay within the threshold of the centre of the box of the
\* members before it, and the flushes are as many as the fixes that started
\* a new cluster.
C10_FlushOffCentre ==
    /\ \A c \in 1..Len(C3_Clusters) : \A k \in 2..Len(C3_Clusters[c]) :
          ~C10_OffCentre(C10_Box(C3_Clusters[c], k - 1), C3_Clusters[c][k].msg)
    /\ accepted # <<>> =>
          Len(flushed) = Cardinality({a \in 2..Len(accepted) :
              \E c \in 1..Len(C3_Clusters) :
                  C3_Clusters[c] # <<>> /\ C3_Clusters[c][1] = accepted[a]})

\* C10 witness: a cluster of two fixes flushed by a fix of their quality
\* and time, off the centre of their box though within the threshold of the
\* fix before it
C10_Witness ==
    /\ Len(flushed) = 1
    /\ Len(flushed[1]) = 2
    /\ Len(gpsstack.items) = 1
    /\ LET f == gpsstack.items[1]
       IN  /\ f.msg.quality = flushed[1][1].msg.quality
           /\ f.dat - flushed[1][1].dat <= 90 * 60
           /\ C10_OffCentre(C10_Box(flushed[1], 2), f.msg)
           /\ ~C2_Apart(flushed[1][2].msg, f.msg)

\* ------------------------------------------------------------------ C11

\* C11: when the 300 fixes of one tight cluster (quality 1, within 0.5 m and
\* one hour) have been read to the end, exactly 1 TrackPoint is written if
\* the cluster capacity is 300 or more, and exactly 2 if it is 200 to 299
C11_PointsByCapacity ==
    (pc = "done" /\ stream = TightStream)
        => /\ gpsstack.max_size >= 300 => Len(trkfile) = 1
           /\ gpsstack.max_size \in 200..299 => Len(trkfile) = 2

\* ------------------------------------------------------------------ C12

\* the step reads a position sentence whose latitude or longitude is empty
C12_ReadsBlank ==
    /\ stream' # stream
    /\ Read.msgID = "GGA"
    /\ (Read.lat = Blank \/ Read.lon = Blank)

\* C12: a position fix with an empty lat/lon is skipped without being fatal:
\* the reader goes on to the next sentence, and the held date, the cluster,
\* the whole-stream BoundingBox and the points written are unchanged by it
C12_BlankSkipped ==
    [][C12_ReadsBlank =>
        /\ pc' = "reading"
        /\ UNCHANGED <<thisday, gpsstack, bb, trkfile>>]_vars

\* ------------------------------------------------------------------ C13

\* the step is a call of op on the stack
Called(op) == n' = n + 1 /\ ret'.op = op

\* C13: the members of a cluster are never more than its capacity, and
\* it_fits() on a full cluster returns False and leaves the members as
\* they were
C13_NeverOverCapacity ==
    [][/\ Len(gpsstack'.items) <= gpsstack'.max_size
       /\ (Called("it_fits") /\ Len(gpsstack.items) = gpsstack.max_size)
             => (~ret'.val /\ gpsstack'.items = gpsstack.items)]_vars

\* C13 witness: a full cluster has refused a fix equal to its first member
C13_Witness ==
    /\ pc = "stack"
    /\ ret.op = "it_fits"
    /\ ~ret.val
    /\ Len(gpsstack.items) = gpsstack.max_size
    /\ gpsstack.full_count > 0
    /\ ret.arg = gpsstack.items[1]

\* ------------------------------------------------------------------ C14

\* C14: every member of a cluster has the fix quality of its first member,
\* and it_fits() on a non-empty cluster returns False without adding when
\* the fix's quality is another than the first member's
C14_OneQuality ==
    [][/\ \A k \in 1..Len(gpsstack'.items) :
             gpsstack'.items[k].msg.quality = gpsstack'.items[1].msg.quality
       /\ (/\ Called("it_fits")
           /\ gpsstack.items # <<>>
           /\ ret'.arg.msg.quality # gpsstack.items[1].msg.quality)
             => (~ret'.val /\ gpsstack'.items = gpsstack.items)]_vars

\* C14 witness: a cluster with room has refused a fix at the place and time
\* of its first member, of another quality
C14_Witness ==
    /\ pc = "stack"
    /\ ret.op = "it_fits"
    /\ ~ret.val
    /\ gpsstack.items # <<>>
    /\ Len(gpsstack.items) < gpsstack.max_size
    /\ ret.arg.msg.quality # gpsstack.items[1].msg.quality
    /\ ret.arg.dat = gpsstack.items[1].dat
    /\ ret.arg.msg.lat = gpsstack.items[1].msg.lat
    /\ ret.arg.msg.lon = gpsstack.items[1].msg.lon

\* ------------------------------------------------------------------ C15

\* C15: it_fits() returns False without adding a fix timed more than 90
\* minutes after the cluster's first timestamp, so every member is timed at
\* most 90 minutes after the first member; the first timestamp is that of
\* the first member pushed since the last flush
C15_WithinWindow ==
    [][/\ \A k \in 1..Len(gpsstack'.items) :
             gpsstack'.items[k].dat - gpsstack'.items[1].dat <= STACK_MINUTES * 60
       /\ gpsstack'.first =
             IF gpsstack'.items = <<>> THEN NoDat ELSE gpsstack'.items[1].dat
       /\ (/\ Called("it_fits")
           /\ gpsstack.items # <<>>
           /\ ret'.arg.dat - gpsstack.first > STACK_MINUTES * 60)
             => (~ret'.val /\ gpsstack'.items = gpsstack.items)]_vars

\* C15 witness: a cluster with room has refused a fix of its quality at the
\* place of its first member, timed 90 minutes and a second after it
C15_Witness ==
    /\ pc = "stack"
    /\ ret.op = "it_fits"
    /\ ~ret.val
    /\ gpsstack.items # <<>>
    /\ Len(gpsstack.items) < gpsstack.max_size
    /\ ret.arg.msg.quality = gpsstack.items[1].msg.quality
    /\ ret.arg.msg.lat = gpsstack.items[1].msg.lat
    /\ ret.arg.msg.lon = gpsstack.items[1].msg.lon
    /\ ret.arg.dat - gpsstack.first = STACK_MINUTES * 60 + 1

\* ------------------------------------------------------------------ C16

\* the greatest and the least of a set of numbers
C16_Max(S) == CHOOSE x \in S : \A y \in S : y <= x

C16_Min(S) == CHOOSE x \in S : \A y \in S : x <= y

\* the bounding box of the members c, from their coordinates
C16_MemberBox(c) ==
    LET lats == {c[k].msg.lat : k \in 1..Len(c)}
        lons == {c[k].msg.lon : k \in 1..Len(c)}
    IN  [minlat |-> C16_Min(lats), maxlat |-> C16_Max(lats),
         minlon |-> C16_Min(lons), maxlon |-> C16_Max(lons)]

\* the step offers to a cluster that is neither empty nor full a fix of its
\* quality, timed within the window
C16_OffersInWindow ==
    /\ Called("it_fits")
    /\ gpsstack.items # <<>>
    /\ Len(gpsstack.items) < gpsstack.max_size
    /\ ret'.arg.msg.quality = gpsstack.items[1].msg.quality
    /\ ret'.arg.dat - gpsstack.first <= STACK_MINUTES * 60

\* C16: for a cluster neither empty nor full and a fix of its quality within
\* the time window, it_fits() returns False without adding exactly when the
\* fix is farther than the jiggle threshold from the centroid of the
\* cluster's members; otherwise it appends the fix, updates the cluster's
\* box and returns True
C16_ByCentroid ==
    [][C16_OffersInWindow =>
        LET off == C10_OffCentre(C16_MemberBox(gpsstack.items), ret'.arg.msg)
        IN  /\ ret'.val = ~off
            /\ off => gpsstack'.items = gpsstack.items
            /\ ~off => /\ gpsstack'.items = Append(gpsstack.items, ret'.arg)
                       /\ gpsstack'.box = C16_MemberBox(gpsstack'.items)]_vars

\* ------------------------------------------------------------------ C17

\* C17: the fix written in every TrackPoint is the fix quality of the first
\* member of the cluster flushed for it, as 3d, 2d or none, whatever the
\* quality of the fix that set off the flush
C17_FixOfFirstMember ==
    /\ Len(trkfile) = Len(flushed)
    /\ \A k \in 1..Len(trkfile) :
          trkfile[k].fix = C4_Fix(flushed[k][1].msg.quality)

\* ------------------------------------------------------------------ C18

\* C18: the time of every TrackPoint is the timestamp of the last member of
\* the cluster flushed for it, and its HDOP is the greatest HDOP of that
\* cluster's members
C18_LastTimeMaxHdop ==
    /\ Len(trkfile) = Len(flushed)
    /\ \A k \in 1..Len(trkfile) :
          /\ trkfile[k].time = Last(flushed[k]).dat
          /\ \A m \in 1..Len(flushed[k]) : flushed[k][m].msg.HDOP <= trkfile[k].hdop
          /\ \E m \in 1..Len(flushed[k]) : flushed[k][m].msg.HDOP = trkfile[k].hdop

\* C18 witness: a point written for a cluster whose last member is later
\* than its first and has a lower HDOP than the point
C18_Witness ==
    \E k \in 1..Len(trkfile) :
        /\ flushed[k][1].dat < Last(flushed[k]).dat
        /\ Last(flushed[k]).msg.HDOP < trkfile[k].hdop
        /\ trkfile[k].time = Last(flushed[k]).dat

\* ------------------------------------------------------------------ C19

\* C19 as stated: a call of median(), or of flush(), on an empty cluster
\* ends in an error
C19_EmptyFails ==
    [][((Called("median") \/ Called("flush")) /\ gpsstack.items = <<>>)
          => pc' = "IndexError"]_vars

\* C19 amended: median() on an empty cluster raises IndexError and returns
\* no point; flush() on an empty cluster computes no point and leaves the
\* cluster empty without an error
C19_MedianRaises ==
    [][/\ (Called("median") /\ gpsstack.items = <<>>)
             => (ret'.raised /\ pc' = "IndexError")
       /\ (Called("median") /\ gpsstack.items # <<>>)
             => (~ret'.raised /\ pc' = "stack")
       /\ (Called("flush") /\ gpsstack.items = <<>>)
             => (pc' = "stack" /\ gpsstack'.items = <<>>)]_vars

\* C19 witness: median() was called on an empty cluster that had been
\* flushed before
C19_Witness ==
    /\ pc = "IndexError"
    /\ ret.op = "median"
    /\ gpsstack.items = <<>>
    /\ stack_max > 0

\* ------------------------------------------------------------------ C20

\* the box of the points passed so far
C20_Passed(pts) ==
    LET lats == {pts[k][1] : k \in 1..Len(pts)}
        lons == {pts[k][2] : k \in 1..Len(pts)}
    IN  [minlat |-> C16_Min(lats), maxlat |-> C16_Max(lats),
         minlon |-> C16_Min(lons), maxlon |-> C16_Max(lons)]

\* C20: after every update() with valid coordinates the box holds the least
\* and greatest latitude and longitude passed so far, and its bounds have
\* only widened
C20_MinMaxPassed ==
    [][(pc = "box" /\ n' = n + 1) =>
        /\ bb' = C20_Passed(stream')
        /\ stream # <<>> =>
              /\ bb'.minlat <= bb.minlat /\ bb'.maxlat >= bb.maxlat
              /\ bb'.minlon <= bb.minlon /\ bb'.maxlon >= bb.maxlon]_vars

\* ------------------------------------------------------------------ C21

\* the points passed so far are the four corners (0,0), (1,0), (0,1), (1,1)
C21_Corners ==
    {stream[k] : k \in 1..Len(stream)} =
        {<<la * DEG, lo * DEG>> : la \in {0, 1}, lo \in {0, 1}}

\* C21: after the four corners (0,0), (1,0), (0,1), (1,1) in any order
\* centroid() is (0.5, 0.5), and after any updates it is the midpoint of the
\* least and greatest latitude and longitude passed (both sides doubled)
C21_Midpoint ==
    (pc = "box" /\ stream # <<>>) =>
        /\ C21_Corners => centroid2(bb) = <<DEG, DEG>>
        /\ centroid2(bb) = <<C20_Passed(stream).minlat + C20_Passed(stream).maxlat,
                             C20_Passed(stream).minlon + C20_Passed(stream).maxlon>>

\* ------------------------------------------------------------------ C22

\* C22: centroid() of a BoundingBox never updated returns (0, 0) (an error
\* is the other outcome allowed; centroid() raises none)
C22_NeverUpdated == (pc = "box" /\ stream = <<>>) => centroid2(bb) = <<0, 0>>

\* ------------------------------------------------------------------ C23

\* the step passes update() a point within the four bounds
C23_Contained ==
    /\ pc = "box"
    /\ n' = n + 1
    /\ Last(stream')[1] >= bb.minlat /\ Last(stream')[1] <= bb.maxlat
    /\ Last(stream')[2] >= bb.minlon /\ Last(stream')[2] <= bb.maxlon

\* the step passes update() a point passed before
C23_Repeated ==
    /\ pc = "box"
    /\ n' = n + 1
    /\ \E k \in 1..Len(stream) : stream[k] = Last(stream')

\* C23: update() with a point inside the current bounds, a point passed
\* before in particular, leaves the four bounds as they were
C23_Idempotent == [][(C23_Contained \/ C23_Repeated) => bb' = bb]_vars

\* C23 witness: the point passed last lies strictly inside the box and was
\* passed before; so was a point of negative longitude
C23_Witness ==
    /\ pc = "box"
    /\ Len(stream) = 5
    /\ stream[5] = stream[1]
    /\ stream[4] = stream[3]
    /\ stream[4][2] < 0
    /\ bb.minlat < stream[5][1] /\ stream[5][1] < bb.maxlat
    /\ bb.minlon < stream[5][2] /\ stream[5][2] < bb.maxlon

\* ------------------------------------------------------------------ C24

\* C24 as stated: is_empty() and is_full() on a cluster in any state change
\* no field of the cluster
C24_PureQueries ==
    [][(Called("is_empty") \/ Called("is_full")) => gpsstack' = gpsstack]_vars

\* C24 amended: is_empty() changes no field of the cluster; is_full()
\* changes none but full_count, which it raises by one when the cluster is
\* full and leaves alone when it is not; both return what their names say
C24_QueriesButCount ==
    [][/\ Called("is_empty") =>
             /\ gpsstack' = gpsstack
             /\ ret'.val = (Len(gpsstack.items) = 0)
       /\ Called("is_full") =>
             /\ ret'.val = (Len(gpsstack.items) = gpsstack.max_size)
             /\ gpsstack' = [gpsstack EXCEPT !.full_count =
                                IF ret'.val THEN @ + 1 ELSE @]]_vars

\* C24 witness: is_full() was called on a full cluster and on one with
\* room, and is_empty() in between
C24_Witness ==
    /\ pc = "stack"
    /\ ret.op = "is_full"
    /\ ret.val
    /\ gpsstack.full_count = 1
    /\ n = 4

\* ------------------------------------------------------------------ C25

\* the step ends the reading of the stream early, by an exception
C25_EndsEarly == pc = "reading" /\ pc' # "reading" /\ pc' # "done"

\* C25: when the reading of a stream is ended early, by an error surfacing
\* from the loop, a non-empty current cluster is flushed and its TrackPoint
\* written before the tracker returns
C25_FlushOnEarlyEnd ==
    [][(C25_EndsEarly /\ gpsstack.items # <<>>) =>
          /\ Len(trkfile') = Len(trkfile) + 1
          /\ gpsstack'.items = <<>>]_vars

\* ------------------------------------------------------------------ C26

\* C26: the points written for a file are the same whether it is the first
\* file of the run or comes after other files: a file read to its end with
\* the sentences of a file before it has the points of that file, and so
\* have any two files before it with the same sentences
C26_SameAfterOthers ==
    /\ \A k \in 1..Len(files) :
          (pc = "done" /\ stream = files[k].stream) => trkfile = files[k].trkfile
    /\ \A j, k \in 1..Len(files) :
          files[j].stream = files[k].stream => files[j].trkfile = files[k].trkfile

\* C26 witness: the third file has been read after another file that left
\* an entry in GAPS and a stack_max behind; it has the sentences of the
\* first, none of them 90 minutes into the day, and a point was written
C26_Witness ==
    /\ Len(files) = 2
    /\ pc = "done"
    /\ stream = files[1].stream
    /\ stream # files[2].stream
    /\ \A k \in 1..Len(stream) : stream[k].time < STACK_MINUTES * 60
    /\ GAPS # <<>>
    /\ stack_max > 0
    /\ trkfile # <<>>

\* ------------------------------------------------------------------ C27

\* the step calls median() on a cluster of a single fix
C27_MedianOfOne == Called("median") /\ Len(gpsstack.items) = 1

\* C27 as stated: the representative point of a cluster of a single fix, in
\* its first lifetime or after a flush, is that fix's own lat, lon,
\* altitude, timestamp, quality and HDOP
C27_OwnValues ==
    [][C27_MedianOfOne =>
          LET fix == gpsstack.items[1]
          IN  ret'.val = [lat |-> fix.msg.lat, lon |-> fix.msg.lon,
                          alt |-> fix.msg.alt, dat |-> fix.dat,
                          quality |-> fix.msg.quality,
                          hdop |-> fix.msg.HDOP]]_vars

\* v rounded to the nearest multiple of step, a tie going to the even one
C27_Rounded(v, step) ==
    LET q == v \div step
        r == v - q * step
    IN  IF 2 * r < step \/ (2 * r = step /\ q % 2 = 0)
        THEN q * step ELSE (q + 1) * step

\* C27 amended: the representative point of a cluster of a single fix, in
\* any lifetime of the cluster, has that fix's altitude (to 0.1 m),
\* timestamp, quality and HDOP, and its lat and lon rounded to 6 decimals;
\* flush() leaves no member, first timestamp or box behind
C27_RoundedValues ==
    [][/\ C27_MedianOfOne =>
             LET fix == gpsstack.items[1]
             IN  ret'.val = [lat |-> C27_Rounded(fix.msg.lat, 10),
                             lon |-> C27_Rounded(fix.msg.lon, 10),
                             alt |-> fix.msg.alt, dat |-> fix.dat,
                             quality |-> fix.msg.quality,
                             hdop |-> fix.msg.HDOP]
       /\ Called("flush") =>
             /\ gpsstack'.items = <<>>
             /\ gpsstack'.first = NoDat
             /\ gpsstack'.box = BoundingBox]_vars

\* C27 witness: median() of a single fix, a fix alone having been flushed
\* from the cluster before
C27_Witness ==
    /\ pc = "stack"
    /\ ret.op = "median"
    /\ Len(gpsstack.items) = 1
    /\ stack_max = 1
    /\ ret.val.dat = gpsstack.items[1].dat
    /\ ret.val.lat # gpsstack.items[1].msg.lat

\* ------------------------------------------------------------------ C28

\* the step reads the first position sentence after a date-bearing one
C28_FirstAfterDate ==
    /\ stream' # stream
    /\ stream # <<>>
    /\ Read.msgID = "GGA"
    /\ Last(stream).msgID = "RMC"

\* C28: the first position sentence after a date-bearing sentence is
\* discarded, neither accepted nor used for a rollover, when its time of day
\* is earlier than the date sentence's own by more than the grace window (8
\* minutes), or later than it by more than 23 hours
C28_FirstAgainstDateTime ==
    [][(/\ C28_FirstAfterDate
        /\ \/ Last(stream).time - Read.time > 8 * 60
           \/ Read.time - Last(stream).time > 23 * 3600)
          => /\ pc' = "reading"
             /\ i' = i
             /\ thisday' = thisday
             /\ gpsstack' = gpsstack]_vars

\* ------------------------------------------------------------------ C29

\* the step reads a position sentence (with a position) that is not the
\* first after a date-bearing one, timed 8 minutes or more before the last
\* accepted fix
C29_LongStepBack ==
    /\ stream' # stream
    /\ Read.msgID = "GGA"
    /\ Read.lat # Blank /\ Read.lon # Blank
    /\ ~first_GGA
    /\ accepted # <<>>
    /\ Last(accepted).msg.time - Read.time >= 8 * 60

C30_ShortStepBack ==
    /\ stream' # stream
    /\ Read.msgID = "GGA"
    /\ thisday # NoDay
    /\ accepted # <<>>
    /\ Read.time < Last(accepted).msg.time
    /\ Last(accepted).msg.time - Read.time < 8 * 60

\* C30: such a fix, under a minute back or under 8 minutes, is discarded:
\* it is not offered to the cluster and the held date is not raised
C30_NoRollover ==
    [][C30_ShortStepBack =>
          /\ pc' = "reading"
          /\ i' = i
          /\ accepted' = accepted
          /\ gpsstack' = gpsstack
          /\ thisday' = thisday
          /\ msg_stash' = Append(msg_stash, <<n', Read>>)]_vars

\* C30 witness: a fix 23 s back and then a fix 6 min 5 s back of the last
\* accepted fix have been discarded
C30_Witness ==
    /\ Len(stream) = 4
    /\ Len(accepted) = 1
    /\ accepted[1].msg.time = 400
    /\ stream[3].time = 35
    /\ stream[4].time = 12
    /\ msg_stash = <<<<3, stream[3]>>, <<4, stream[4]>>>>
    /\ thisday = stream[1].date

\* ------------------------------------------------------------------ C31

\* the places of the stream where the time of day steps back
C31_Descents == {k \in 2..Len(stream) : stream[k].time < stream[k - 1].time}

\* The stream starts with a dated sentence and crosses one midnight, at
\* sentence b: a position sentence before it, a position sentence and a
\* sentence dated the next day from it on, no other date before it.
C31_OneMidnight ==
    /\ stream # <<>>
    /\ stream[1].msgID = "RMC"
    /\ Cardinality(C31_Descents) = 1
    /\ \A b \in C31_Descents :
          /\ \E j \in 2..(b - 1) : stream[j].msgID = "GGA"
          /\ \E j \in b..Len(stream) : stream[j].msgID = "GGA"
          /\ \E j \in b..Len(stream) :
                stream[j].msgID = "RMC" /\ stream[j].date = stream[1].date + 1
          /\ \A j \in 1..(b - 1) :
                stream[j].msgID = "RMC" => stream[j].date = stream[1].date

\* C31: when a stream crosses one midnight and both a sentence dated the next
\* day and a step back of the position sentences' time of day occur, the
\* held date goes up by exactly one day for it, whichever comes first: it is
\* never two days on, and a fix accepted after the midnight is of the next
\* day
C31_OneDayPerMidnight ==
    C31_OneMidnight =>
        /\ thisday <= stream[1].date + 1
        /\ \A b \in C31_Descents :
              (accepted # <<>> /\ Last(accepted).n >= b) =>
                  /\ thisday = stream[1].date + 1
                  /\ Last(accepted).dat =
                        (stream[1].date + 1) * 86400 + Last(accepted).msg.time

\* ------------------------------------------------------------------ C32

\* the greatest number of members a cluster of the stream has held, the
\* open cluster among them
C32_Largest == C16_Max({Len(C3_Clusters[c]) : c \in 1..Len(C3_Clusters)})

\* the greatest number of members of the flushed clusters of the stream
C32_LargestFlushed == C16_Max({0} \cup {Len(flushed[c]) : c \in 1..Len(flushed)})

\* C32: the maximum cluster size reported when a stream has been read is
\* the greatest number of members any cluster of that stream held, the
\* cluster open at the end included, whatever other streams were read
C32_MaxOfStream == pc = "done" => stack_max = C32_Largest

\* ------------------------------------------------------------------ C33

\* the timestamps of the sequence of items never step back
C33_Ordered(items) ==
    \A k \in 1..(Len(items) - 1) : items[k].dat <= items[k + 1].dat

C34_Discards ==
    /\ n' = n + 1
    /\ pc' = "reading"
    /\ Read.msgID = "GGA"
    /\ ~Offers

\* C34: a step that discards a position fix adds it to the stash and leaves
\* the held date, prev_time, the stack, the whole-file box, the counts of
\* fixes offered and of track points, the track, the gaps and the largest
\* stack size as they were; besides the stash only first_GGA may change
C34_DiscardFrame ==
    [][C34_Discards =>
          /\ msg_stash' = Append(msg_stash, <<n', Read>>)
          /\ UNCHANGED <<thisday, prev_time, gpsstack, bb, i, tp, trkfile,
                         GAPS, stack_max, accepted, flushed>>]_vars

\* a fix has just been discarded while the stack held members, at a time
\* of day other than prev_time
C34_Witness ==
    /\ pc = "reading"
    /\ msg_stash # <<>>
    /\ Last(msg_stash)[1] = n
    /\ gpsstack.items # <<>>
    /\ Last(msg_stash)[2].time # prev_time
    /\ Last(accepted).n < n

\* ------------------------------------------------------------------ C35

\* the step calls median(): it is called when it_fits fails, and the point
\* it gives is written to the track
C35_CallsMedian == tp' = tp + 1

\* C35: after every step of reader that follows the first fix offered, the
\* stack has members and its last member is the fix offered last; and every
\* step that calls median() does so on a stack with members
C35_NeverEmptyAgain ==
    [][/\ (i' > 0) =>
              /\ gpsstack'.items # <<>>
              /\ Last(gpsstack'.items) = Last(accepted')
       /\ Offers =>
              /\ Last(gpsstack'.items).msg = Read
              /\ Last(gpsstack'.items).n = n'
       /\ C35_CallsMedian => gpsstack.items # <<>>]_vars

\* median() has been called and the stack restarted with the fix in hand,
\* and a sentence that is not offered has been read after it
C35_Witness ==
    /\ tp > 0
    /\ gpsstack.items # <<>>
    /\ Last(gpsstack.items).n < n
    /\ Last(gpsstack.items) = Last(accepted)

\* ------------------------------------------------------------------ C36

\* the span of the box in latitude and in longitude is at most 2 x JIGGLE
\* (coordinate units times CM_PER_100_UNITS against centimetres times 100)
C36_Within2Jiggle(box) ==
    /\ (box.maxlat - box.minlat) * CM_PER_100_UNITS <= 2 * JIGGLE * 100
    /\ (box.maxlon - box.minlon) * CM_PER_100_UNITS <= 2 * JIGGLE * 100

\* C36: whenever the stack has members, its box spans at most 2 x JIGGLE in
\* latitude and in longitude, and so does the box of its members
C36_BoxSpan ==
    (gpsstack.items # <<>>) =>
        /\ C36_Within2Jiggle(gpsstack.box)
        /\ C36_Within2Jiggle(C16_MemberBox(gpsstack.items))

\* ------------------------------------------------------------------ C37

\* the put of the lowest HDOP among ps, the last of them when several have
\* it, as the tuple get() returns
C37_Best(ps) ==
    LET k == CHOOSE k \in 1..Len(ps) :
                 \A j \in 1..Len(ps) :
                     \/ ps[j].hdop > ps[k].hdop
                     \/ (ps[j].hdop = ps[k].hdop /\ j <= k)
    IN  <<ps[k].raw, ps[k].parsed, ps[k].hdop, ps[k].lat, ps[k].lon, ps[k].t>>

\* C37: once put() has been called since the stash was made or last
\* flushed, is_available() is true and get() returns the put of the lowest
\* HDOP, the most recent one among equal HDOPs
C37_BestOfPuts ==
    (puts # <<>>) =>
        /\ Bad_stash_is_available(poor_data)
        /\ ~Bad_stash_get(poor_data).none
        /\ Bad_stash_get(poor_data).val = C37_Best(puts)

\* ------------------------------------------------------------------ C38

\* C38: every sentence in the archive file that is open was received while
\* that file was open: none of them was received before the restart that
\* opened it
C38_OnlyOfThisFile ==
    \A k \in 1..Len(af) : af[k].rcv = restarts

\* ------------------------------------------------------------------ C39

\* every connect attempt so far has failed with OSError (none has raised
\* anything else: the loop has not left by sys.exit(1))
C39_AllFailed == attempts.failed = attempts.all /\ pc # "exit"

\* the device has answered every ping so far
C39_KeepsAnswering == \A k \in 1..Len(pings) : pings[k]

\* C39: while every connect attempt fails with OSError, at most
\* max_total_tries attempts are made if the device answers every ping, and
\* if it does not answer the first ping the loop has left by wait_and_exit
\* after exactly len(WAITS_LIST) attempts
C39_BoundedAttempts ==
    C39_AllFailed =>
        /\ C39_KeepsAnswering => attempts.all <= max_total_tries
        /\ (pings = <<FALSE>>) =>
              /\ pc = "wait_and_exit"
              /\ attempts.all = Len(WAITS_LIST)

====
